---- MODULE Spec2Model ----
(***************************************************************************)
(* Lifecycle of composed service bundles: <(T1, T2) as ServicesTrait> with *)
(* T1 the core aggregate (service/services.rs) and T2 the social aggregate *)
(* (social-service/services.rs).  One host task runs start, one runs run   *)
(* (router/run.rs) with its poll, one runs stop; every spawned worker is a *)
(* task of its own.  MapSpec covers service_map of nested pairs, RegSpec   *)
(* the RwLock of one Registry guard by guard.                              *)
(***************************************************************************)
EXTENDS Naturals, Sequences, FiniteSets, TLC

VARIABLES
    seq,        \* construction sequence of the social struct literal
    allowCheck, \* globals.allow_check_for_updates()
    starting,   \* element of the pair whose start is running (0: none)
    startRes,   \* result of <(T1, T2)>::start: "pending", "ok", "err"
    phase,      \* per bundle: position inside Services::start
    pos,        \* per bundle: index of the next build! call
    registry,   \* per bundle: names inserted into the Map
    missed,     \* per bundle: depend calls that did not resolve
    manager,    \* per bundle: the Manager slot, "none" or "some"
    mutex,      \* per bundle: holder of the tokio Mutex around the slot
    wpc,        \* per bundle, per worker: position of the worker task
    woken,      \* the updates worker's Notified future has been notified
    intr,       \* per bundle: services whose interrupt() has been called
    finished,   \* per bundle: <<service, result>> in completion order
    stopPc,     \* per bundle: position inside Services::stop
    stopIntr,   \* per bundle: services interrupted by this stop's interrupt()
    joined,     \* per bundle: Manager::stop has completed
    polled,     \* per bundle: result returned by Services::poll
    pollAt,     \* element of the pair whose poll is awaited (0: none)
    pollPc,     \* position inside <(T1, T2)>::poll
    pollRes,    \* result returned by the pair's poll
    intrLog,    \* services reached by <(T1, T2)>::interrupt, in call order
    mapIn,      \* the Registries of three bundles A, B, C given to service_map
    nestL,      \* service_map of ((A, B), C)
    nestR,      \* service_map of (A, (B, C))
    nestDone,   \* which of the two nestings have been evaluated
    strong,     \* per bundle, per service: strong count of the service's Arc
    clones,     \* per bundle: clones of the aggregate's handle kept by others
    dbHeld,     \* per bundle: clones of the Database handle kept by others
    diag,       \* diagnostics logged by check_refs and by run::stop
    stopRes,    \* result of run::stop: "none" until it returns
    rmap,       \* a Registry under concurrent use: the names in its Map
    owned,      \* services of that Registry that their owner still holds
    rdr,        \* tasks holding a read guard of its RwLock
    wtr,        \* task holding the write guard of its RwLock, or "none"
    ipc,        \* add_service: position of the inserting task
    iname,      \* add_service: the name being inserted
    spc,        \* clear_cache: position of the task that called services()
    snap,       \* the Vec that services() collected
    yielded,    \* items the stream of services() has yielded so far
    after,      \* names inserted since services() collected
    xpc,        \* interrupt: position of the interrupting task
    xseen,      \* services that interrupt reached
    runPc,      \* position inside run
    listener,   \* the listener task: "none", "running", or how it ended
    srvRunning, \* server.running()
    sigs,       \* the signal task: "none", "waiting", "fired", "joined"
    runShutdown,\* run has called server.shutdown()
    runBranch,  \* branch of select! that completed: "listener" or "poll"
    runRes,     \* result returned by run: "none" until it returns
    runLog,     \* errors logged by handle_services_poll
    entry,      \* an entry point of router/mod.rs whose future is being polled
    inner,      \* what polling its inner future yields, poll after poll
    polls,      \* polls of the returned future made so far
    entryRes,   \* what the returned future completed with, "none" before
    cycle,      \* which call of start by the host this is
    kept,       \* Registries of earlier aggregates that are still alive:
                \* <<cycle, bundle, name>> for each of their entries
    bundle,     \* the value arc_build is called on, as a tree of its type
    built,      \* what that call produced
    debugAsserts, \* whether the build has debug assertions enabled
    reachable,  \* whether the update server can be reached at all
    checks,     \* the number of checks the update server has answered
    lastId,     \* the stored last-check-for-updates id (0 when none is stored)
    resp,       \* check: the updates of the parsed response
    idx,        \* check: the position of the loop in resp
    lastAtCheck,\* the stored id when the current check began
    sent,       \* the announcements handed to the admin room, in order
    pool,       \* the ConnectionPool: its semaphore, its channel, its callers
    conn        \* a Connection: its handle, its flag, its counters, its calls

vars == <<seq, allowCheck, starting, startRes, phase, pos, registry, missed,
          manager, mutex, wpc, woken, intr, finished, stopPc, stopIntr,
          joined, polled, pollAt, pollPc, pollRes, intrLog,
          mapIn, nestL, nestR, nestDone, strong, clones, dbHeld, diag,
          stopRes, rmap, owned, rdr, wtr, ipc, iname, spc, snap, yielded,
          after, xpc, xseen, runPc, listener, srvRunning, sigs, runShutdown,
          runBranch, runRes, runLog, entry, inner, polls, entryRes, cycle,
          kept, bundle, built, debugAsserts, reachable, checks,
          lastId, resp, idx, lastAtCheck, sent, pool, conn>>

Bundles == {1, 2}

\* service/services.rs: the core struct literal builds config only.
CoreDeclared == <<"config">>

\* social-service/services.rs: the struct literal in declaration order,
\* restricted to the services that take part in a depend call.
SocialDeclared ==
    <<"admin", "resolver", "client", "globals", "federation", "server_keys",
      "updates">>

\* The same services, every dependency constructed before its dependent:
\* the order the build algorithm asks for.  With the declared order the
\* social start never gets past resolver, so the lifecycle after a
\* successful start is explored with this order.
SocialRespecting ==
    <<"admin", "client", "resolver", "globals", "server_keys", "federation",
      "updates">>

\* One repair only: client before resolver, federation still before
\* server_keys.
SocialHalfRepaired ==
    <<"admin", "client", "resolver", "globals", "federation", "server_keys",
      "updates">>

SocialOrders == {SocialDeclared, SocialRespecting, SocialHalfRepaired}

BuildSeq(a) == IF a = 1 THEN CoreDeclared ELSE seq

Range(s) == {s[i] : i \in 1..Len(s)}

Names(a) == IF a = 1 THEN Range(CoreDeclared) ELSE Range(SocialDeclared)

\* The names each Service::build passes to args.depend.
Deps(s) ==
    CASE s = "resolver"   -> {"client"}
      [] s = "federation" -> {"client", "resolver", "server_keys"}
      [] s = "updates"    -> {"globals", "admin", "client"}
      [] OTHER            -> {}

\* Constructors with a fallible step of their own (Resolver::build(..)?).
OwnFallible == {"resolver"}

\* Services whose worker is known by the Service contract only: it runs
\* until it is interrupted or until it fails.
ContractWorkers(a) == IF a = 1 THEN {"config"} ELSE {"admin"}

\* Services that expose a worker; updates has the worker of updates/mod.rs.
Workers(a) == ContractWorkers(a) \cup (IF a = 2 THEN {"updates"} ELSE {})

\* Args::depend: the name resolves iff its entry is in the Map and upgrades.
DependResolves(a, name) == name \in registry[a]

Unresolved(a, s) == {d \in Deps(s) : ~DependResolves(a, d)}

\* A sequence respects dependencies when every depend names an earlier entry.
Respects(order) ==
    \A i \in 1..Len(order) :
        Deps(order[i]) \subseteq {order[j] : j \in 1..(i - 1)}

\* The state after construction of the host: nothing started yet.
Idle ==
    /\ seq \in SocialOrders
    /\ allowCheck \in BOOLEAN
    /\ starting = 1
    /\ startRes = "pending"
    /\ phase = [a \in Bundles |-> "idle"]
    /\ pos = [a \in Bundles |-> 1]
    /\ registry = [a \in Bundles |-> {}]
    /\ missed = [a \in Bundles |-> {}]
    /\ manager = [a \in Bundles |-> "none"]
    /\ mutex = [a \in Bundles |-> "free"]
    /\ wpc = [a \in Bundles |-> [s \in Workers(a) |-> "none"]]
    /\ woken = FALSE
    /\ intr = [a \in Bundles |-> {}]
    /\ finished = [a \in Bundles |-> <<>>]
    /\ stopPc = [a \in Bundles |-> "idle"]
    /\ stopIntr = [a \in Bundles |-> {}]
    /\ joined = [a \in Bundles |-> FALSE]
    /\ polled = [a \in Bundles |-> "none"]
    /\ pollAt = 0
    /\ pollPc = "idle"
    /\ pollRes = "none"
    /\ intrLog = <<>>
    /\ strong = [a \in Bundles |-> [s \in Names(a) |-> 0]]
    /\ clones = [a \in Bundles |-> 0]
    /\ dbHeld = [a \in Bundles |-> 0]
    /\ diag = {}
    /\ stopRes = "none"
    /\ runPc = "idle"
    /\ listener = "none"
    /\ srvRunning = TRUE
    /\ sigs = "none"
    /\ runShutdown = FALSE
    /\ runBranch = "none"
    /\ runRes = "none"
    /\ runLog = {}

mapVars == <<mapIn, nestL, nestR, nestDone>>

\* No Map has been handed to a nested pair.
NoMaps ==
    /\ mapIn = [x \in 1..3 |-> [n \in {} |-> 1]]
    /\ nestL = [n \in {} |-> 1] /\ nestR = [n \in {} |-> 1]
    /\ nestDone = {}

regVars == <<rmap, owned, rdr, wtr, ipc, iname, spc, snap, yielded, after,
             xpc, xseen>>

\* The Registry of the fine-grained lock model is not in use.
NoReg ==
    /\ rmap = {} /\ owned = {} /\ rdr = {} /\ wtr = "none"
    /\ ipc = "idle" /\ iname = "none"
    /\ spc = "idle" /\ snap = {} /\ yielded = {} /\ after = {}
    /\ xpc = "idle" /\ xseen = {}

entryVars == <<entry, inner, polls, entryRes>>

\* No future of an entry point is being polled.
NoEntry == entry = "none" /\ inner = <<>> /\ polls = 0 /\ entryRes = "none"

cycleVars == <<cycle, kept>>

\* The first start of the host; no earlier aggregate exists.
FirstCycle == cycle = 1 /\ kept = {}

routerVars == <<bundle, built>>

\* The outcome of a call: st is "none" before the call, then "ok" or
\* "panic"; calls lists the values arc_build was entered on, in order.
Outcome(st, router, guard, calls) ==
    [st |-> st, router |-> router, guard |-> guard, calls |-> calls]

\* arc_build has not been called.
NoRouter == bundle = <<>> /\ built = Outcome("none", <<>>, <<>>, <<>>)

updVars == <<debugAsserts, reachable, checks, lastId, resp, idx, lastAtCheck,
             sent>>

\* A release build; the update server is unreachable, nothing is stored,
\* nothing was sent.
NoUpdates ==
    /\ debugAsserts = FALSE
    /\ reachable = FALSE /\ checks = 0 /\ lastId = 0
    /\ resp = <<>> /\ idx = 1 /\ lastAtCheck = 0 /\ sent = <<>>

\* No pool was constructed.
NoPool ==
    pool = [max |-> 0, permits |-> 0, idle |-> 0, probing |-> 0,
            creating |-> 0, handed |-> 0, returning |-> 0, made |-> 0]

\* No connection was created.
NoConn ==
    conn = [db |-> 0, is_healthy |-> FALSE, query_count |-> 0,
            error_count |-> 0, queries |-> 0, transactions |-> 0,
            calls |-> 0, completed |-> 0, last |-> <<"none", "none">>]

sideVars == <<entryVars, cycleVars, routerVars, updVars, pool, conn>>

Init ==
    /\ Idle /\ NoMaps /\ NoReg /\ NoEntry /\ FirstCycle /\ NoRouter
    /\ NoUpdates
    /\ NoPool /\ NoConn

startVars == <<starting, startRes, phase, pos, registry, missed, manager>>
workerVars == <<wpc, woken, finished>>
stopVars == <<stopPc, stopIntr, joined>>
pollVars == <<pollAt, pollPc, pollRes, polled>>
inputVars == <<seq, allowCheck>>
hostVars == <<clones, dbHeld, diag, stopRes>>
runVars == <<runPc, listener, srvRunning, sigs, runShutdown, runBranch,
             runRes, runLog>>
extVars == <<intrLog, mapVars, hostVars, regVars, runVars, sideVars>>
quietVars == <<extVars, strong>>

(***************************************************************************)
(* Services::start of one bundle, and <(T1, T2)>::start around it.         *)
(***************************************************************************)

FieldsKept(a) == strong[a]

\* Dropping the aggregate (or the services constructed so far) drops the
\* one strong handle the struct holds of each service.
FieldsDropped(a) ==
    [s \in Names(a) |-> IF s \in registry[a] THEN strong[a][s] - 1 ELSE strong[a][s]]

AddServiceKeepsStrong(n) == n + 1

\* add_service(map, s, a): the two handles passed in are clones that die
\* when it returns; the Map gets Arc::downgrade(&s) and Arc::downgrade(&a).
\* n is the strong count before the call, the result the count after it.
AddService(n) == n

FullyBuiltEarly(a) == pos[a] > 1

\* Every build! call of the struct literal has returned.
FullyBuilt(a) == pos[a] > Len(BuildSeq(a))

\* `?` inside start: the error leaves start at once; the pair's start drops
\* the BuildResult of the element that had already started.
StartFails(a) ==
    /\ strong' = [b \in Bundles |->
                    IF b = a \/ phase[b] = "started" THEN FieldsDropped(b)
                    ELSE strong[b]]
    /\ phase' = [b \in Bundles |->
                    IF b = a THEN "failed"
                    ELSE IF phase[b] = "started" THEN "dropped"
                    ELSE phase[b]]
    /\ starting' = 0
    /\ startRes' = "err"

\* The pair starts its first element, then its second.
NextToStart(a) == IF a = 1 THEN 2 ELSE 0

BuildProceedsAlways(a, s) == TRUE

\* build!: `?` on T::build: the construction goes on only when build is Ok.
BuildProceeds(a, s) == Unresolved(a, s) = {}

\* One Registry for every start of the bundle, created once and reused.
NewRegistryReused(a) == registry[a]

\* Arc::new(RwLock::new(BTreeMap::new()))
NewRegistry(a) == {}

\* Database::open(&server).await? and the creation of the Registry.
DbOpenOk(a) ==
    /\ starting = a /\ phase[a] = "idle"
    /\ phase' = [phase EXCEPT ![a] = "build"]
    /\ registry' = [registry EXCEPT ![a] = NewRegistry(a)]
    /\ UNCHANGED <<starting, startRes, pos, missed, manager, mutex,
                   workerVars, intr, stopVars, pollVars, inputVars, quietVars>>

DbOpenFail(a) ==
    /\ starting = a /\ phase[a] = "idle"
    /\ StartFails(a)
    /\ UNCHANGED <<pos, registry, missed, manager, mutex, workerVars, intr,
                   stopVars, pollVars, inputVars, extVars>>

\* build!: T::build returned Ok, add_service inserts under the service's name.
BuildOk(a) ==
    /\ starting = a /\ phase[a] = "build" /\ ~FullyBuilt(a)
    /\ BuildProceeds(a, BuildSeq(a)[pos[a]])
    /\ registry' = [registry EXCEPT ![a] = @ \cup {BuildSeq(a)[pos[a]]}]
    /\ pos' = [pos EXCEPT ![a] = @ + 1]
    /\ strong' = [strong EXCEPT ![a][BuildSeq(a)[pos[a]]] = AddService(1)]
    /\ UNCHANGED <<starting, startRes, phase, missed, manager, mutex,
                   workerVars, intr, stopVars, pollVars, inputVars, extVars>>

\* build!: a fallible step of the constructor itself returned Err.
BuildFailOwn(a) ==
    /\ starting = a /\ phase[a] = "build" /\ ~FullyBuilt(a)
    /\ BuildSeq(a)[pos[a]] \in OwnFallible
    /\ StartFails(a)
    /\ UNCHANGED <<pos, registry, missed, manager, mutex, workerVars, intr,
                   stopVars, pollVars, inputVars, extVars>>

\* build!: a depend call of the constructor did not resolve.
BuildFailDepend(a) ==
    /\ starting = a /\ phase[a] = "build" /\ ~FullyBuilt(a)
    /\ Unresolved(a, BuildSeq(a)[pos[a]]) # {}
    /\ missed' = [missed EXCEPT ![a] = @ \cup Unresolved(a, BuildSeq(a)[pos[a]])]
    /\ StartFails(a)
    /\ UNCHANGED <<pos, registry, manager, mutex, workerVars, intr, stopVars,
                   pollVars, inputVars, extVars>>

\* Arc::new(Self { .. }): the aggregate exists; social runs migrations next.
Assemble(a) ==
    /\ starting = a /\ phase[a] = "build" /\ FullyBuilt(a)
    /\ phase' = [phase EXCEPT ![a] = IF a = 2 THEN "migrate" ELSE "manager"]
    /\ UNCHANGED <<starting, startRes, pos, registry, missed, manager, mutex,
                   workerVars, intr, stopVars, pollVars, inputVars, quietVars>>

MigrationsOk(a) ==
    /\ starting = a /\ phase[a] = "migrate"
    /\ phase' = [phase EXCEPT ![a] = "manager"]
    /\ UNCHANGED <<starting, startRes, pos, registry, missed, manager, mutex,
                   workerVars, intr, stopVars, pollVars, inputVars, quietVars>>

MigrationsFail(a) ==
    /\ starting = a /\ phase[a] = "migrate"
    /\ StartFails(a)
    /\ UNCHANGED <<pos, registry, missed, manager, mutex, workerVars, intr,
                   stopVars, pollVars, inputVars, extVars>>

\* Manager::start: one task per service that exposes a worker.
Spawned(a) ==
    [s \in Workers(a) |-> IF s = "updates" THEN "entry" ELSE "run"]

\* manager.lock().await.insert(Manager::new(&built)).clone().start().await?
ManagerStart(a) ==
    /\ starting = a /\ phase[a] = "manager"
    /\ mutex[a] = "free"
    /\ manager' = [manager EXCEPT ![a] = "some"]
    /\ wpc' = [wpc EXCEPT ![a] = Spawned(a)]
    /\ strong' = [strong EXCEPT ![a] =
                    [s \in Names(a) |-> IF s \in Workers(a) THEN @[s] + 1 ELSE @[s]]]
    /\ phase' = [phase EXCEPT ![a] = "spawned"]
    /\ UNCHANGED <<starting, startRes, pos, registry, missed, mutex, woken,
                   finished, intr, stopVars, pollVars, inputVars, extVars>>

\* Ok(built); the pair goes on to its second element or returns Ok.
StartReturn(a) ==
    /\ starting = a /\ phase[a] = "spawned"
    /\ phase' = [phase EXCEPT ![a] = "started"]
    /\ starting' = NextToStart(a)
    /\ startRes' = IF NextToStart(a) = 0 THEN "ok" ELSE startRes
    /\ UNCHANGED <<pos, registry, missed, manager, mutex, workerVars, intr,
                   stopVars, pollVars, inputVars, quietVars>>

(***************************************************************************)
(* Worker tasks.  config and admin follow the Service contract: they run   *)
(* until interrupted or until they fail.  updates is Service::worker of    *)
(* social-service/updates/mod.rs.                                          *)
(***************************************************************************)

Finish(a, s, res) ==
    /\ strong' = [strong EXCEPT ![a][s] = @ - 1]
    /\ wpc' = [wpc EXCEPT ![a][s] = "done"]
    /\ finished' = [finished EXCEPT ![a] = Append(@, <<s, res>>)]

\* The worker observes the interrupt of its service and returns Ok(()).
WorkerExit(a, s) ==
    /\ s \in ContractWorkers(a) /\ wpc[a][s] = "run"
    /\ s \in intr[a]
    /\ Finish(a, s, "ok")
    /\ UNCHANGED <<startVars, mutex, woken, intr, stopVars, pollVars, inputVars, extVars>>

\* The worker's loop returns an error on its own.
WorkerError(a, s) ==
    /\ s \in ContractWorkers(a) /\ wpc[a][s] = "run"
    /\ Finish(a, s, "err")
    /\ UNCHANGED <<startVars, mutex, woken, intr, stopVars, pollVars, inputVars, extVars>>

\* if !allow_check_for_updates() { return Ok(()) }
UpdatesDisabled ==
    /\ wpc[2]["updates"] = "entry" /\ ~allowCheck
    /\ Finish(2, "updates", "ok")
    /\ UNCHANGED <<startVars, mutex, woken, intr, stopVars, pollVars, inputVars, extVars>>

\* The loop is entered: select! creates a fresh Notified future.
UpdatesEnter ==
    /\ wpc[2]["updates"] = "entry" /\ allowCheck
    /\ wpc' = [wpc EXCEPT ![2]["updates"] = "select"]
    /\ woken' = FALSE
    /\ UNCHANGED <<startVars, mutex, intr, finished, stopVars, pollVars, inputVars, quietVars>>

\* select!: the interval branch is taken; the Notified future is dropped.
UpdatesTick ==
    /\ wpc[2]["updates"] = "select"
    /\ wpc' = [wpc EXCEPT ![2]["updates"] = "check"]
    /\ woken' = FALSE
    /\ UNCHANGED <<startVars, mutex, intr, finished, stopVars, pollVars, inputVars, quietVars>>

\* select!: the notified branch is taken: break, then Ok(()).
UpdatesBreak ==
    /\ wpc[2]["updates"] = "select" /\ woken
    /\ Finish(2, "updates", "ok")
    /\ woken' = FALSE
    /\ UNCHANGED <<startVars, mutex, intr, stopVars, pollVars, inputVars, extVars>>

\* What the loop of check leaves alone.
checkFrame ==
    <<startVars, mutex, intr, finished, stopVars, pollVars, inputVars, intrLog,
      mapVars, hostVars, regVars, runVars, entryVars, cycleVars, routerVars,
      strong, pool, conn>>

\* A response of the update server: the request fails, the body does not
\* parse, or it parses to a list of updates, each with its id.
Response(kind, updates) == [kind |-> kind, updates |-> updates]

\* debug_assert!(self.services.server.running(), ..)
AssertFails == debugAsserts /\ ~srvRunning

\* `?` on send(), text() or serde_json::from_str: check returns Err.
CheckFails(r) == r.kind # "ok"

\* check() up to its loop, the update server answering with r.  An Err is
\* logged by the worker and the loop of the worker goes back to select!.
UpdatesCheckWith(r) ==
    /\ wpc[2]["updates"] = "check" /\ ~AssertFails
    /\ IF CheckFails(r)
       THEN /\ wpc' = [wpc EXCEPT ![2]["updates"] = "select"]
            /\ woken' = FALSE
            /\ UNCHANGED <<lastId, resp, idx, lastAtCheck, sent>>
       ELSE /\ wpc' = [wpc EXCEPT ![2]["updates"] = "handle"]
            /\ resp' = r.updates
            /\ idx' = 1
            /\ lastAtCheck' = lastId
            /\ UNCHANGED <<woken, lastId, sent>>
    /\ UNCHANGED <<debugAsserts, reachable, checkFrame>>

\* check() in a build with debug assertions, entered after the server has
\* begun to shut down: the assertion panics and the worker's task ends.
UpdatesAssert ==
    /\ wpc[2]["updates"] = "check" /\ AssertFails
    /\ Finish(2, "updates", "panic")
    /\ UNCHANGED <<startVars, mutex, woken, intr, stopVars, pollVars, inputVars,
                   extVars>>

\* The update server cannot be reached: send() fails.
UpdatesCheck ==
    /\ ~reachable
    /\ UpdatesCheckWith(Response("http_err", <<>>))
    /\ UNCHANGED checks

\* An update is announced whenever its id is not below the stored one.
ShouldHandleNotLess(id, last) == id >= last

\* if update.id > self.last_check_for_updates_id().await
ShouldHandle(id, last) == id > last

\* The stored id left as it is.
StoreIdNever(last, id) == last

\* update_check_for_updates_id(update.id): raw_put of the id
StoreId(last, id) == id

\* handle(update): send_message(..).await.ok(), its result is dropped.
Announce(log, id, ok) == Append(log, [id |-> id, ok |-> ok])

\* One turn of `for update in &response.updates`.
UpdatesExamine(ok) ==
    /\ wpc[2]["updates"] = "handle" /\ idx <= Len(resp)
    /\ IF ShouldHandle(resp[idx], lastId)
       THEN /\ sent' = Announce(sent, resp[idx], ok)
            /\ lastId' = StoreId(lastId, resp[idx])
       ELSE UNCHANGED <<sent, lastId>>
    /\ idx' = idx + 1
    /\ UNCHANGED <<wpc, woken, debugAsserts, reachable, checks, resp,
                   lastAtCheck, checkFrame>>

\* The loop is over: Ok(()); the worker goes back to select!.
UpdatesChecked ==
    /\ wpc[2]["updates"] = "handle" /\ idx > Len(resp)
    /\ wpc' = [wpc EXCEPT ![2]["updates"] = "select"]
    /\ woken' = FALSE
    /\ UNCHANGED <<debugAsserts, reachable, checks, lastId, resp, idx,
                   lastAtCheck, sent, checkFrame>>

(***************************************************************************)
(* interrupt, stop and poll.                                               *)
(***************************************************************************)

\* Strong handles are held by the aggregate's fields and by running workers.
Upgradable(a) ==
    {s \in registry[a] :
        \/ phase[a] \notin {"failed", "dropped"}
        \/ (s \in Workers(a) /\ wpc[a][s] \notin {"none", "done"})}

InterruptNone(a) == {}

\* ServicesTrait::interrupt: every entry of the Map that upgrades.
InterruptTargets(a) == Upgradable(a)

\* Service::interrupt of updates is notify_waiters: it reaches only a
\* Notified future that exists, that is a worker waiting in select!.
Notifies(a, targets) ==
    a = 2 /\ "updates" \in targets /\ wpc[2]["updates"] = "select"

Interrupted(a, targets) ==
    /\ intr' = [intr EXCEPT ![a] = @ \cup targets]
    /\ woken' = (woken \/ Notifies(a, targets))

StopTurnParallel(a) == TRUE

\* <(T1, T2)>::stop: self.0.stop().await; self.1.stop().await
StopTurn(a) == a = 1 \/ stopPc[1] = "returned"

\* Services::stop up to self.interrupt().  (The social stop pings presence
\* first and clears admin's services last; neither touches this state.)
StopInterrupt(a) ==
    /\ startRes = "ok" /\ StopTurn(a) /\ stopPc[a] = "idle"
    /\ Interrupted(a, InterruptTargets(a))
    /\ stopIntr' = [stopIntr EXCEPT ![a] = InterruptTargets(a)]
    /\ stopPc' = [stopPc EXCEPT ![a] = "lock"]
    /\ UNCHANGED <<startVars, mutex, wpc, finished, joined, pollVars, inputVars, quietVars>>

StopSkipsManager(a) == FALSE

\* if let Some(manager) = self.manager.lock().await.as_ref()
StopAwaitsManager(a) == manager[a] = "some"

\* Manager::stop broadcasts the interruption, then awaits every task.
ManagerStopBroadcast(a) == Upgradable(a)

StopLock(a) ==
    /\ stopPc[a] = "lock" /\ mutex[a] = "free"
    /\ IF StopAwaitsManager(a)
       THEN /\ mutex' = [mutex EXCEPT ![a] = "stop"]
            /\ Interrupted(a, ManagerStopBroadcast(a))
            /\ stopPc' = [stopPc EXCEPT ![a] = "join"]
       ELSE /\ stopPc' = [stopPc EXCEPT ![a] = "returned"]
            /\ UNCHANGED <<mutex, intr, woken>>
    /\ UNCHANGED <<startVars, wpc, finished, stopIntr, joined, pollVars, inputVars, quietVars>>

\* Manager::stop has joined every task it spawned.
ManagerJoined(a) == \A s \in Workers(a) : wpc[a][s] \in {"none", "done"}

\* The slot emptied by stop, as .take() would.
SlotTaken(m) == "none"

\* self.manager.lock().await.as_ref(): stop borrows the Manager in the slot.
SlotAfterStop(m) == m

StopJoin(a) ==
    /\ stopPc[a] = "join" /\ ManagerJoined(a)
    /\ mutex' = [mutex EXCEPT ![a] = "free"]
    /\ manager' = [manager EXCEPT ![a] = SlotAfterStop(@)]
    /\ stopPc' = [stopPc EXCEPT ![a] = "returned"]
    /\ joined' = [joined EXCEPT ![a] = TRUE]
    /\ UNCHANGED <<starting, startRes, phase, pos, registry, missed, workerVars,
                   intr, stopIntr, pollVars, inputVars, quietVars>>

\* Manager::poll: a race across the spawned tasks, won by the first to finish.
ManagerPollReady(a) == finished[a] # <<>>
ManagerPollResult(a) == Head(finished[a])[2]

\* select! in run polls services.poll() for the first time.
PollBegin ==
    /\ startRes = "ok" /\ pollPc = "idle" /\ stopRes = "none"
    /\ runPc = "select"
    /\ pollAt' = 1 /\ pollPc' = "lock"
    /\ UNCHANGED <<startVars, mutex, workerVars, intr, stopVars, pollRes, polled,
                   inputVars, quietVars>>

\* <(T1, T2)>::poll: self.0.poll().await?; self.1.poll().await
PollAfter(a, res) ==
    /\ polled' = [polled EXCEPT ![a] = res]
    /\ IF a = 1 /\ res = "ok"
       THEN /\ pollAt' = 2 /\ pollPc' = "lock" /\ UNCHANGED pollRes
       ELSE /\ pollAt' = 0 /\ pollPc' = "done" /\ pollRes' = res

\* The guard released as soon as the slot has been read.
GuardReleasedEarly(a) == "free"

\* if let Some(manager) = self.manager.lock().await.as_ref() { .. }: the
\* guard is a temporary of the scrutinee and lives to the end of the if let.
GuardDuringPoll(a) == "poll"

\* Services::poll: the slot is locked for as long as manager.poll() runs.
PollLock(a) ==
    /\ pollPc = "lock" /\ pollAt = a /\ mutex[a] = "free"
    /\ IF manager[a] = "some"
       THEN /\ mutex' = [mutex EXCEPT ![a] = GuardDuringPoll(a)]
            /\ pollPc' = "wait"
            /\ UNCHANGED <<pollAt, pollRes, polled>>
       ELSE /\ PollAfter(a, "ok")
            /\ UNCHANGED mutex
    /\ UNCHANGED <<startVars, workerVars, intr, stopVars, inputVars, quietVars>>

PollWaitsForAll(a) == \A s \in Workers(a) : wpc[a][s] = "done"

\* Services::poll returns when manager.poll() does.
PollMayReturn(a) == ManagerPollReady(a)

PollReturn(a) ==
    /\ pollPc = "wait" /\ pollAt = a
    /\ PollMayReturn(a)
    /\ mutex' = [mutex EXCEPT ![a] = "free"]
    /\ PollAfter(a, ManagerPollResult(a))
    /\ UNCHANGED <<startVars, workerVars, intr, stopVars, inputVars, quietVars>>

ListenerFinished == listener \in {"ok", "err", "panic"}

ListenerResultIgnoresJoin(l) == IF l = "err" THEN "err" ELSE "ok"

\* res.map_err(Error::from).unwrap_or_else(Err): the task's own result, a
\* JoinError (panic or cancellation of the task) turned into an error.
ListenerResult(l) == IF l = "ok" THEN "ok" ELSE "err"

\* select! in run completes with the listener branch: the pending poll
\* future is dropped and with it the guard of the slot it may hold.
PollDrop ==
    /\ runPc = "select" /\ ListenerFinished
    /\ pollPc \in {"idle", "lock", "wait"}
    /\ mutex' = IF pollPc = "wait" THEN [mutex EXCEPT ![pollAt] = "free"] ELSE mutex
    /\ pollAt' = 0 /\ pollPc' = "dropped"
    /\ runBranch' = "listener"
    /\ runRes' = ListenerResult(listener)
    /\ runPc' = "sigs"
    /\ UNCHANGED <<sideVars, startVars, workerVars, intr, stopVars, pollRes, polled,
                   inputVars, intrLog, mapVars, hostVars, regVars, strong,
                   listener, srvRunning, sigs, runShutdown, runLog>>

\* run up to select!: the signal task and the listener task are spawned.
RunBegin ==
    /\ startRes = "ok" /\ runPc = "idle" /\ stopPc[1] = "idle"
    /\ runPc' = "select"
    /\ listener' = "running"
    /\ sigs' = "waiting"
    /\ UNCHANGED <<sideVars, startVars, mutex, workerVars, intr, stopVars, pollVars,
                   inputVars, intrLog, mapVars, hostVars, regVars, strong,
                   srvRunning, runShutdown, runBranch, runRes, runLog>>

\* Someone else (a signal, an admin command) shuts the server down.
ServerShutdown ==
    /\ runPc = "select" /\ srvRunning
    /\ srvRunning' = FALSE
    /\ UNCHANGED <<sideVars, startVars, mutex, workerVars, intr, stopVars, pollVars,
                   inputVars, intrLog, mapVars, hostVars, regVars, strong,
                   runPc, listener, sigs, runShutdown, runBranch, runRes,
                   runLog>>

\* signal: until_shutdown() resolves, handle_shutdown sends on tx and asks
\* the listener for a graceful shutdown.
SignalFire ==
    /\ sigs = "waiting" /\ ~srvRunning
    /\ sigs' = "fired"
    /\ UNCHANGED <<sideVars, startVars, mutex, workerVars, intr, stopVars, pollVars,
                   inputVars, intrLog, mapVars, hostVars, regVars, strong,
                   runPc, listener, srvRunning, runShutdown, runBranch,
                   runRes, runLog>>

\* The listener task ends: serve returns Ok after the graceful shutdown,
\* returns an error of its own, or the task panics.
ListenerFinish(r) ==
    /\ listener = "running"
    /\ r = "ok" => sigs = "fired"
    /\ listener' = r
    /\ UNCHANGED <<sideVars, startVars, mutex, workerVars, intr, stopVars, pollVars,
                   inputVars, intrLog, mapVars, hostVars, regVars, strong,
                   runPc, srvRunning, sigs, runShutdown, runBranch, runRes,
                   runLog>>

\* if server.running() { server.shutdown() }
ShutdownRequested(running) == running

\* select! in run completes with the poll branch: handle_services_poll up to
\* listener.await.
RunPollFirst ==
    /\ runPc = "select" /\ pollPc = "done"
    /\ runBranch' = "poll"
    /\ runShutdown' = ShutdownRequested(srvRunning)
    /\ srvRunning' = (srvRunning /\ ~ShutdownRequested(srvRunning))
    /\ runPc' = "join"
    /\ UNCHANGED <<sideVars, startVars, mutex, workerVars, intr, stopVars, pollVars,
                   inputVars, intrLog, mapVars, hostVars, regVars, strong,
                   listener, sigs, runRes, runLog>>

\* if let Err(e) = listener.await { error!(..) }: only a JoinError is Err.
ListenerLog(l) == IF l = "panic" THEN {"Client listener task finished with error"} ELSE {}

PollBranchResultOfListener(result, l) == IF l = "ok" THEN "ok" ELSE "err"

\* handle_services_poll returns `result`, the value poll produced.
PollBranchResult(result, l) == result

\* handle_services_poll from listener.await to its return.
RunJoinListener ==
    /\ runPc = "join" /\ ListenerFinished
    /\ runLog' = runLog \cup ListenerLog(listener)
    /\ runRes' = PollBranchResult(pollRes, listener)
    /\ runPc' = "sigs"
    /\ UNCHANGED <<sideVars, startVars, mutex, workerVars, intr, stopVars, pollVars,
                   inputVars, intrLog, mapVars, hostVars, regVars, strong,
                   listener, srvRunning, sigs, runShutdown, runBranch>>

\* The handle of the signal task dropped without abort: the task lives on.
SigsDetached(s) == s

\* sigs.abort(); _ = sigs.await: aborted while waiting or already finished,
\* the task has ended when the await returns.
SigsAbortJoin(s) == "joined"

\* sigs.abort(); _ = sigs.await; res
RunReturn ==
    /\ runPc = "sigs"
    /\ sigs' = SigsAbortJoin(sigs)
    /\ runPc' = "returned"
    /\ UNCHANGED <<sideVars, startVars, mutex, workerVars, intr, stopVars, pollVars,
                   inputVars, intrLog, mapVars, hostVars, regVars, strong,
                   listener, srvRunning, runShutdown, runBranch, runRes,
                   runLog>>

(***************************************************************************)
(* The merged Map of a pair, and the pair's own interrupt().               *)
(***************************************************************************)

\* A Map is a function from service names to entries; an entry stands for
\* the pair of weak handles and is written as the bundle that owns them.
EmptyMap == [n \in {} |-> 1]

\* Services::service_map: the bundle's own Registry.
ServiceMap(a) == [n \in registry[a] |-> a]

copy_service_mapReplace(out_map, in_map) == in_map

\* copy_service_map: out_map.insert(key.clone(), val.clone()) for every entry
\* of in_map; insert replaces the value of a key that is already there.
copy_service_map(out_map, in_map) ==
    [n \in (DOMAIN out_map) \cup (DOMAIN in_map) |->
        IF n \in DOMAIN in_map THEN in_map[n] ELSE out_map[n]]

\* <(T1, T2)>::service_map: a fresh BTreeMap filled from .0, then from .1.
PairServiceMap(m1, m2) ==
    copy_service_map(copy_service_map(EmptyMap, m1), m2)

\* BTreeMap<String, _> iterates in the order of its keys.
KeyOrder ==
    <<"admin", "client", "config", "federation", "globals", "resolver",
      "server_keys", "updates">>

\* The entries of a Map in iteration order, as <<owner, name>>.
MapIter(m) ==
    LET keys == SelectSeq(KeyOrder, LAMBDA n : n \in DOMAIN m)
    IN  [i \in 1..Len(keys) |-> <<m[keys[i]], keys[i]>>]

\* ServicesTrait::interrupt on the pair: the default method walks
\* self.service_map() and interrupts every entry that upgrades.
PairInterruptOrder ==
    SelectSeq(MapIter(PairServiceMap(ServiceMap(1), ServiceMap(2))),
              LAMBDA e : e[2] \in Upgradable(e[1]))

PairInterruptTargets(a) ==
    {PairInterruptOrder[i][2] :
        i \in {j \in 1..Len(PairInterruptOrder) : PairInterruptOrder[j][1] = a}}

PairInterrupt ==
    /\ startRes = "ok" /\ intrLog = <<>> /\ stopRes = "none"
    /\ intrLog' = PairInterruptOrder
    /\ intr' = [a \in Bundles |-> intr[a] \cup PairInterruptTargets(a)]
    /\ woken' = (woken \/ Notifies(2, PairInterruptTargets(2)))
    /\ UNCHANGED <<sideVars, startVars, mutex, wpc, finished, stopVars, pollVars,
                   inputVars, mapVars, hostVars, strong, regVars, runVars>>

(***************************************************************************)
(* service_map of nested pairs, as a function of three Registries.         *)
(***************************************************************************)

\* Names the three bundles may register; an overlap is a name collision.
MapNames == {"admin", "client", "config"}

\* Registry of bundle x: every entry holds the weak handles of x's service.
RegistryOf(x, names) == [n \in names |-> x]

lifeVars0 == <<startVars, mutex, workerVars, intr, stopVars, pollVars,
               inputVars, intrLog, runVars>>
lifeVars == <<lifeVars0, hostVars, strong>>

MapInit ==
    /\ Idle /\ seq = SocialDeclared /\ ~allowCheck
    /\ \E na, nb, nc \in SUBSET MapNames :
          mapIn = <<RegistryOf(1, na), RegistryOf(2, nb), RegistryOf(3, nc)>>
    /\ nestL = EmptyMap /\ nestR = EmptyMap
    /\ nestDone = {}
    /\ NoReg /\ NoEntry /\ FirstCycle /\ NoRouter /\ NoUpdates
    /\ NoPool /\ NoConn

\* ((A, B), C).service_map()
NestLeft ==
    /\ "l" \notin nestDone
    /\ nestL' = PairServiceMap(PairServiceMap(mapIn[1], mapIn[2]), mapIn[3])
    /\ nestDone' = nestDone \cup {"l"}
    /\ UNCHANGED <<sideVars, lifeVars, mapIn, nestR, regVars>>

\* (A, (B, C)).service_map()
NestRight ==
    /\ "r" \notin nestDone
    /\ nestR' = PairServiceMap(mapIn[1], PairServiceMap(mapIn[2], mapIn[3]))
    /\ nestDone' = nestDone \cup {"r"}
    /\ UNCHANGED <<sideVars, lifeVars, mapIn, nestL, regVars>>

MapNext == NestLeft \/ NestRight

MapSpec == MapInit /\ [][MapNext]_vars

(***************************************************************************)
(* Strong handles to the aggregates and run::stop after the pair's stop.   *)
(***************************************************************************)

\* Clones of a handle that others may still hold when check_refs runs.
MaxClones == 1

\* Arc::new(Self { .. }) has run and the aggregate has not been destroyed.
Assembled(a) == phase[a] \in {"migrate", "manager", "spawned", "started"}

\* Strong handles to the aggregate kept by what start created from it:
\* Manager::new(&built) captures clones of Arc fields only and admin keeps a
\* back reference that does not own.
InternalHolders(a) == {}

\* The handle start returned is the caller's until run::stop consumes it.
AggStrong(a) ==
    IF Assembled(a)
    THEN (IF stopRes = "none" THEN 1 ELSE 0) + clones[a]
            + Cardinality(InternalHolders(a))
    ELSE 0

\* ServicesTrait::name of each bundle (the core bundle by its type name).
BundleName(a) == IF a = 1 THEN "CoreServices" ELSE "SocialServices"

\* A clone of the aggregate's handle made by the host (the router state
\* keeps such clones) that outlives the pair's stop.
HostClone(a) ==
    /\ startRes = "ok" /\ stopPc[2] = "returned" /\ stopRes = "none"
    /\ clones[a] < MaxClones
    /\ clones' = [clones EXCEPT ![a] = @ + 1]
    /\ UNCHANGED <<sideVars, lifeVars0, dbHeld, diag, stopRes, strong, mapVars, regVars>>

\* A clone of services.db() that outlives the pair's stop.
DbClone(a) ==
    /\ startRes = "ok" /\ stopPc[2] = "returned" /\ stopRes = "none"
    /\ dbHeld[a] < MaxClones
    /\ dbHeld' = [dbHeld EXCEPT ![a] = @ + 1]
    /\ UNCHANGED <<sideVars, lifeVars0, clones, diag, stopRes, strong, mapVars, regVars>>

TryUnwrapNever(a) == FALSE

\* Arc::try_unwrap(self) is Ok iff self is the only strong handle.
TryUnwrapOk(a) == AggStrong(a) = 1

\* <Arc<T>>::check_refs: debug_error! with Arc::strong_count and the name.
RefsDiag(a) ==
    IF TryUnwrapOk(a) THEN {} ELSE {<<"refs", BundleName(a), AggStrong(a)>>}

\* Strong handles to the Database of bundle a after check_refs: the
\* aggregate's own handle, if the aggregate survived, and the clones.
DbStrongOf(a) == (IF TryUnwrapOk(a) THEN 0 ELSE 1) + dbHeld[a]

DbOfBoth(a) == TRUE

\* <(T1, T2)>::db is self.0.db(): the Database of the first bundle only.
DbOfPair(a) == a = 1

\* Weak::strong_count(&db) of the handle taken from services.db().
DbStrongAfter ==
    (IF DbOfPair(1) THEN DbStrongOf(1) ELSE 0)
        + (IF DbOfPair(2) THEN DbStrongOf(2) ELSE 0)

DbDiag == IF DbStrongAfter > 0 THEN {<<"db", "Database", DbStrongAfter>>} ELSE {}

StopResultFailsOnLeak(d) == IF d = {} THEN "ok" ELSE "err"

\* run::stop ends with Ok(()) whatever was logged.
StopResult(d) == "ok"

\* run::stop once services.stop().await has returned: the weak Database
\* handle, check_refs of both halves, the Database check, Ok(()).  The host
\* hands its handles to stop when run is not in flight.
RunStopCheck ==
    /\ startRes = "ok" /\ stopPc[2] = "returned" /\ stopRes = "none"
    /\ runPc \in {"idle", "returned"}
    /\ diag' = diag \cup RefsDiag(1) \cup RefsDiag(2) \cup DbDiag
    /\ phase' = [a \in Bundles |-> IF TryUnwrapOk(a) THEN "dropped" ELSE phase[a]]
    /\ strong' = [a \in Bundles |->
                    IF TryUnwrapOk(a) THEN FieldsDropped(a) ELSE strong[a]]
    /\ stopRes' = StopResult(diag')
    /\ UNCHANGED <<sideVars, starting, startRes, pos, registry, missed, manager, mutex,
                   workerVars, intr, stopVars, pollVars, inputVars, intrLog,
                   mapVars, clones, dbHeld, regVars, runVars>>

(***************************************************************************)
(* One Registry (Arc<RwLock<BTreeMap>>) used by three tasks at once: the   *)
(* builder inserting with add_service, a task in clear_cache (services()   *)
(* and the awaits on its stream), and a task in interrupt().  The guards   *)
(* of the std RwLock are taken and released one step at a time.            *)
(***************************************************************************)

RegInit ==
    /\ Idle /\ seq = SocialDeclared /\ ~allowCheck
    /\ NoMaps /\ NoReg /\ NoEntry /\ FirstCycle /\ NoRouter /\ NoUpdates
    /\ NoPool /\ NoConn

\* Services that upgrade: the owner's handle, or a handle in a live Vec.
Alive == owned \cup (IF spc = "stream" THEN snap ELSE {})

\* let len = map.read().expect(..).len(): the read guard is taken ...
InsAcquireRead(n) ==
    /\ ipc = "idle" /\ n \notin rmap /\ wtr = "none"
    /\ owned' = owned \cup {n}
    /\ rdr' = rdr \cup {"ins"}
    /\ ipc' = "len" /\ iname' = n
    /\ UNCHANGED <<sideVars, lifeVars, mapVars, rmap, wtr, spc, snap, yielded, after, xpc, xseen>>

\* ... and dropped at the end of the let statement.
InsReleaseRead ==
    /\ ipc = "len"
    /\ rdr' = rdr \ {"ins"}
    /\ ipc' = "gap"
    /\ UNCHANGED <<sideVars, lifeVars, mapVars, rmap, owned, wtr, iname, spc, snap, yielded, after, xpc,
                   xseen>>

\* map.write().expect(..): waits for every guard to be gone.
InsAcquireWrite ==
    /\ ipc = "gap" /\ rdr = {} /\ wtr = "none"
    /\ wtr' = "ins"
    /\ ipc' = "write"
    /\ UNCHANGED <<sideVars, lifeVars, mapVars, rmap, owned, rdr, iname, spc, snap, yielded, after, xpc,
                   xseen>>

\* .insert(name, (weak, weak)); the write guard is dropped with the statement.
InsInsert ==
    /\ ipc = "write"
    /\ rmap' = rmap \cup {iname}
    /\ after' = IF spc = "stream" THEN after \cup {iname} ELSE after
    /\ wtr' = "none"
    /\ ipc' = "idle"
    /\ UNCHANGED <<sideVars, lifeVars, mapVars, owned, rdr, iname, spc, snap, yielded, xpc, xseen>>

\* The owner of a registered service drops its handle.
OwnerDrop(n) ==
    /\ n \in owned /\ n \in rmap
    /\ owned' = owned \ {n}
    /\ UNCHANGED <<sideVars, lifeVars, mapVars, rmap, rdr, wtr, ipc, iname, spc, snap, yielded, after, xpc,
                   xseen>>

\* services(): self.service_map().read().expect(..)
SnapAcquire ==
    /\ spc = "idle" /\ wtr = "none"
    /\ rdr' = rdr \cup {"snap"}
    /\ spc' = "collect"
    /\ UNCHANGED <<sideVars, lifeVars, mapVars, rmap, owned, wtr, ipc, iname, snap, yielded, after, xpc,
                   xseen>>

GuardsKept(g) == g

\* services() returns an owned Vec turned into a stream: the read guard is
\* a temporary of the method body and is gone when the stream is returned.
GuardsAfterServices(g) == g \ {"snap"}

\* .values().filter_map(|val| val.0.upgrade()).collect::<Vec<_>>()
SnapCollect ==
    /\ spc = "collect"
    /\ snap' = rmap \cap Alive
    /\ yielded' = {} /\ after' = {}
    /\ rdr' = GuardsAfterServices(rdr)
    /\ spc' = "stream"
    /\ UNCHANGED <<sideVars, lifeVars, mapVars, rmap, owned, wtr, ipc, iname, xpc, xseen>>

LiveView(v) == rmap \cap Alive

\* .into_iter().stream(): the stream yields the items of the Vec.
StreamItems(v) == v

\* for_each: the next item is yielded and service.clear_cache() is awaited.
SnapYield(n) ==
    /\ spc = "stream" /\ n \in StreamItems(snap) \ yielded
    /\ yielded' = yielded \cup {n}
    /\ UNCHANGED <<sideVars, lifeVars, mapVars, rmap, owned, rdr, wtr, ipc, iname, spc, snap, after, xpc,
                   xseen>>

\* The stream is exhausted and dropped with its handles.
SnapEnd ==
    /\ spc = "stream" /\ StreamItems(snap) \subseteq yielded
    /\ spc' = "done"
    /\ UNCHANGED <<sideVars, lifeVars, mapVars, rmap, owned, rdr, wtr, ipc, iname, snap, yielded, after,
                   xpc, xseen>>

\* interrupt(): the read guard lives for the whole for loop ...
IntrAcquire ==
    /\ xpc = "idle" /\ wtr = "none"
    /\ rdr' = rdr \cup {"intr"}
    /\ xpc' = "loop"
    /\ UNCHANGED <<sideVars, lifeVars, mapVars, rmap, owned, wtr, ipc, iname, spc, snap, yielded, after,
                   xseen>>

\* ... which calls service.interrupt() on every entry that upgrades.
IntrLoop ==
    /\ xpc = "loop"
    /\ xseen' = rmap \cap Alive
    /\ rdr' = rdr \ {"intr"}
    /\ xpc' = "done"
    /\ UNCHANGED <<sideVars, lifeVars, mapVars, rmap, owned, wtr, ipc, iname, spc, snap, yielded, after>>

RegNext ==
    \/ \E n \in MapNames : InsAcquireRead(n) \/ OwnerDrop(n) \/ SnapYield(n)
    \/ InsReleaseRead \/ InsAcquireWrite \/ InsInsert
    \/ SnapAcquire \/ SnapCollect \/ SnapEnd
    \/ IntrAcquire \/ IntrLoop

RegSpec == RegInit /\ [][RegNext]_vars

(***************************************************************************)
(* The entry points of router/mod.rs.  start, stop and run each wrap the   *)
(* future of run::start, run::stop or run::run in the same adapter chain   *)
(* and hand the boxed result to the caller, who polls it.  A poll of the   *)
(* inner future is pending, is ready with the inner Result, or panics.     *)
(***************************************************************************)

MaxPending == 3

EntryPoints == {"start", "stop", "run"}

\* k pending polls, then the poll that ends the inner future with o
Script(k, o) == [i \in 1..(k + 1) |-> IF i <= k THEN "pending" ELSE o]

EntryInit ==
    /\ Idle /\ seq = SocialDeclared /\ ~allowCheck
    /\ NoMaps /\ NoReg /\ FirstCycle /\ NoRouter /\ NoUpdates
    /\ NoPool /\ NoConn
    /\ entry \in EntryPoints
    /\ \E k \in 0..MaxPending, o \in {"ok", "err", "panic"} :
          inner = Script(k, o)
    /\ polls = 0 /\ entryRes = "none"

\* CatchUnwind without the catch: the unwinding goes on through the poll.
CatchUnwindPropagates(p) ==
    IF p = "pending" THEN <<"pending", "">> ELSE <<"Ok", p>>

\* AssertUnwindSafe(fut).catch_unwind()
CatchUnwind(p) ==
    CASE p = "pending" -> <<"pending", "">>
      [] p = "panic"   -> <<"Err", "payload">>
      [] OTHER         -> <<"Ok", p>>

\* .map_err(Error::from_panic)
MapErrFromPanic(r) ==
    IF r[1] = "Err" THEN <<"Err", "err_from_panic">> ELSE r

\* .unwrap_or_else(Err): Ok(inner result) is the inner result, Err(e) is Err(e)
UnwrapOrElseErr(r) ==
    CASE r[1] = "pending" -> "pending"
      [] r[1] = "Err"     -> r[2]
      [] OTHER            -> r[2]

\* .catch_unwind().map_err(Error::from_panic).unwrap_or_else(Err).boxed()
Adapter(p) == UnwrapOrElseErr(MapErrFromPanic(CatchUnwind(p)))

\* One poll of the future returned by start.
EntryPollStart ==
    /\ entry = "start" /\ entryRes = "none"
    /\ polls' = polls + 1
    /\ entryRes' = IF Adapter(inner[polls + 1]) = "pending" THEN "none"
                   ELSE Adapter(inner[polls + 1])
    /\ UNCHANGED <<lifeVars, mapVars, regVars, cycleVars, routerVars, updVars, pool, conn,
                   entry, inner>>

\* One poll of the future returned by stop.
EntryPollStop ==
    /\ entry = "stop" /\ entryRes = "none"
    /\ polls' = polls + 1
    /\ entryRes' = IF Adapter(inner[polls + 1]) = "pending" THEN "none"
                   ELSE Adapter(inner[polls + 1])
    /\ UNCHANGED <<lifeVars, mapVars, regVars, cycleVars, routerVars, updVars, pool, conn,
                   entry, inner>>

\* One poll of the future returned by run.
EntryPollRun ==
    /\ entry = "run" /\ entryRes = "none"
    /\ polls' = polls + 1
    /\ entryRes' = IF Adapter(inner[polls + 1]) = "pending" THEN "none"
                   ELSE Adapter(inner[polls + 1])
    /\ UNCHANGED <<lifeVars, mapVars, regVars, cycleVars, routerVars, updVars, pool, conn,
                   entry, inner>>

EntryNext == EntryPollStart \/ EntryPollStop \/ EntryPollRun

EntrySpec == EntryInit /\ [][EntryNext]_vars

(***************************************************************************)
(* Start/stop cycles.  After run::stop has returned, or after a start that *)
(* failed, the host may call start again.  An aggregate of the earlier     *)
(* cycle that a leaked handle keeps alive still has its Registry.          *)
(***************************************************************************)

MaxCycles == 2

CycleInit ==
    /\ Idle /\ ~allowCheck
    /\ NoMaps /\ NoReg /\ NoEntry /\ FirstCycle /\ NoRouter /\ NoUpdates
    /\ NoPool /\ NoConn

\* The Registries that outlive the cycle: those of aggregates still held.
Survivors ==
    UNION {{<<cycle, a, n>> : n \in registry[a]} :
              a \in {b \in Bundles : Assembled(b) /\ clones[b] > 0}}

\* The host calls start again: a new call, new locals, nothing started yet.
Restart ==
    /\ cycle < MaxCycles
    /\ stopRes # "none" \/ startRes = "err"
    /\ cycle' = cycle + 1
    /\ kept' = kept \cup Survivors
    /\ starting' = 1
    /\ startRes' = "pending"
    /\ phase' = [a \in Bundles |-> "idle"]
    /\ pos' = [a \in Bundles |-> 1]
    /\ missed' = [a \in Bundles |-> {}]
    /\ manager' = [a \in Bundles |-> "none"]
    /\ mutex' = [a \in Bundles |-> "free"]
    /\ wpc' = [a \in Bundles |-> [s \in Workers(a) |-> "none"]]
    /\ woken' = FALSE
    /\ intr' = [a \in Bundles |-> {}]
    /\ finished' = [a \in Bundles |-> <<>>]
    /\ stopPc' = [a \in Bundles |-> "idle"]
    /\ stopIntr' = [a \in Bundles |-> {}]
    /\ joined' = [a \in Bundles |-> FALSE]
    /\ intrLog' = <<>>
    /\ strong' = [a \in Bundles |-> [s \in Names(a) |-> 0]]
    /\ clones' = [a \in Bundles |-> 0]
    /\ dbHeld' = [a \in Bundles |-> 0]
    /\ diag' = {}
    /\ stopRes' = "none"
    /\ UNCHANGED <<registry, pollVars, inputVars, runVars, mapVars, regVars,
                   entryVars, routerVars, updVars, pool, conn>>

CycleNext ==
    \/ \E a \in Bundles :
        \/ DbOpenOk(a) \/ DbOpenFail(a)
        \/ BuildOk(a) \/ BuildFailOwn(a) \/ BuildFailDepend(a)
        \/ Assemble(a)
        \/ ManagerStart(a) \/ StartReturn(a)
        \/ StopInterrupt(a) \/ StopLock(a) \/ StopJoin(a)
        \/ \E s \in Workers(a) : WorkerExit(a, s)
        \/ HostClone(a)
    \/ MigrationsOk(2) \/ MigrationsFail(2)
    \/ UpdatesDisabled
    \/ RunStopCheck
    \/ Restart

CycleSpec == CycleInit /\ [][CycleNext]_vars

(***************************************************************************)
(* Router composition.  The value arc_build is called on is written as the *)
(* tree of its type: a concrete aggregate <<"Core", <<>>, <<>>>> or        *)
(* <<"Social", <<>>, <<>>>>, an Arc <<"Arc", inner, <<>>>>, or a pair      *)
(* <<"Pair", first, second>>.  A Router is the sequence of the route       *)
(* tables attached to it, a Guard is written as a tree of the same form.   *)
(***************************************************************************)

MaxDepth == 2

Concrete == {"Core", "Social"}

ArcOf(x) == <<"Arc", x, <<>>>>
PairOf(x, y) == <<"Pair", x, y>>

\* The values of nesting depth at most n.
RECURSIVE Shapes(_)
Shapes(n) ==
    IF n = 0 THEN {<<k, <<>>, <<>>>> : k \in Concrete}
    ELSE LET S == Shapes(n - 1)
         IN  S \cup {ArcOf(x) : x \in S} \cup {PairOf(x, y) : x \in S, y \in S}

BuildInit ==
    /\ Idle /\ seq = SocialDeclared /\ ~allowCheck
    /\ NoMaps /\ NoReg /\ NoEntry /\ FirstCycle /\ NoUpdates
    /\ NoPool /\ NoConn
    /\ bundle \in Shapes(MaxDepth)
    /\ built = Outcome("none", <<>>, <<>>, <<>>)

Panic(calls) == Outcome("panic", <<>>, <<>>, calls)

\* T::build(router, server) of a concrete aggregate: attaches its routes.
LeafBuild(k, router) == Append(router, k)

\* T::build called by the Arc wrapper: the build of a concrete aggregate,
\* or the panicking build of an Arc or of a tuple.
BuildOf(x, router) ==
    IF x[1] \in Concrete THEN Outcome("ok", LeafBuild(x[1], router), <<>>, <<>>)
    ELSE Panic(<<>>)

\* state::create(self.clone()): the Guard of the aggregate behind the Arc.
GuardOf(x) == <<"Guard", x, <<>>>>

\* The merge with the routers taken in the other order.
MergeSwapped(r1, r2) == r2 \o r1

\* router1.merge(router2)
Merge(r1, r2) == r1 \o r2

\* The bare aggregate given the Arc's arc_build.
DefaultArcBuildWorks(x) == Outcome("ok", <<x[1]>>, GuardOf(x), <<x>>)

\* The default arc_build of the trait, which a concrete aggregate keeps.
DefaultArcBuild(x) == Panic(<<x>>)

RECURSIVE arc_build(_)
arc_build(x) ==
    CASE x[1] = "Arc" ->
            LET b == BuildOf(x[2], <<>>)
            IN  IF b.st = "ok"
                THEN Outcome("ok", b.router, GuardOf(x[2]), <<x>>)
                ELSE Panic(<<x>>)
      [] x[1] = "Pair" ->
            LET r1 == arc_build(x[2])
            IN  IF r1.st = "panic" THEN Panic(<<x>> \o r1.calls)
                ELSE LET r2 == arc_build(x[3])
                     IN  IF r2.st = "panic"
                         THEN Panic(<<x>> \o r1.calls \o r2.calls)
                         ELSE Outcome("ok", Merge(r1.router, r2.router),
                                      <<"Pair", r1.guard, r2.guard>>,
                                      <<x>> \o r1.calls \o r2.calls)
      [] OTHER -> DefaultArcBuild(x)

\* services.arc_build()
ArcBuild ==
    /\ bundle # <<>> /\ built.st = "none"
    /\ built' = arc_build(bundle)
    /\ UNCHANGED <<lifeVars, mapVars, regVars, entryVars, cycleVars, updVars, pool, conn,
                   bundle>>

BuildNext == ArcBuild

BuildSpec == BuildInit /\ [][BuildNext]_vars

(***************************************************************************)
(* Update checks.  The pair is started with checks allowed; the update     *)
(* server answers each check with a response of its choice, and the        *)
(* database may already hold an id stored by an earlier run.               *)
(***************************************************************************)

MaxId == 2
MaxUpdates == 2
MaxChecks == 2

UpTo(S, n) == UNION {[1..k -> S] : k \in 0..n}

Responses ==
    {Response("http_err", <<>>), Response("parse_err", <<>>)}
        \cup {Response("ok", u) : u \in UpTo(1..MaxId, MaxUpdates)}

UpdInit ==
    /\ Idle /\ seq = SocialRespecting /\ allowCheck
    /\ NoMaps /\ NoReg /\ NoEntry /\ FirstCycle /\ NoRouter
    /\ debugAsserts = FALSE
    /\ reachable = TRUE /\ checks = 0
    /\ lastId \in 0..MaxId
    /\ resp = <<>> /\ idx = 1 /\ lastAtCheck = 0 /\ sent = <<>>
    /\ NoPool /\ NoConn

\* The update server answers the check.
UpdatesCheckAnswered(r) ==
    /\ reachable /\ checks < MaxChecks
    /\ UpdatesCheckWith(r)
    /\ checks' = checks + 1

UpdNext ==
    \/ \E a \in Bundles :
        \/ DbOpenOk(a) \/ BuildOk(a) \/ Assemble(a)
        \/ ManagerStart(a) \/ StartReturn(a)
    \/ MigrationsOk(2)
    \/ UpdatesEnter \/ UpdatesTick
    \/ \E r \in Responses : UpdatesCheckAnswered(r)
    \/ \E ok \in BOOLEAN : UpdatesExamine(ok)
    \/ UpdatesChecked

UpdSpec == UpdInit /\ [][UpdNext]_vars

(***************************************************************************)
(* The updates worker from its spawn to its end, in a release build or in  *)
(* a build with debug assertions, while the server runs and is shut down   *)
(* and the services are interrupted.                                       *)
(***************************************************************************)

WorkInit ==
    /\ Idle /\ seq = SocialRespecting
    /\ NoMaps /\ NoReg /\ NoEntry /\ FirstCycle /\ NoRouter
    /\ debugAsserts \in BOOLEAN
    /\ reachable \in BOOLEAN /\ checks = 0
    /\ lastId = 0
    /\ resp = <<>> /\ idx = 1 /\ lastAtCheck = 0 /\ sent = <<>>
    /\ NoPool /\ NoConn

WorkNext ==
    \/ \E a \in Bundles :
        \/ DbOpenOk(a) \/ BuildOk(a) \/ Assemble(a)
        \/ ManagerStart(a) \/ StartReturn(a)
        \/ StopInterrupt(a) \/ StopLock(a) \/ StopJoin(a)
        \/ \E s \in Workers(a) : WorkerExit(a, s)
    \/ MigrationsOk(2)
    \/ RunBegin \/ ServerShutdown
    \/ UpdatesDisabled \/ UpdatesEnter \/ UpdatesTick \/ UpdatesBreak
    \/ UpdatesCheck \/ UpdatesAssert
    \/ \E r \in Responses : UpdatesCheckAnswered(r)
    \/ \E ok \in BOOLEAN : UpdatesExamine(ok)
    \/ UpdatesChecked

WorkSpec == WorkInit /\ [][WorkNext]_vars

(***************************************************************************)
(* surrealdb/pool.rs: the ConnectionPool.  A semaphore with              *)
(* max_connections permits, a bounded channel of max_connections idle      *)
(* connections, filled by new; callers take connections with               *)
(* get_connection and give them back with return_connection.  Connections  *)
(* are counted, not told apart.                                            *)
(***************************************************************************)

\* The largest max_connections of a pool, and the most connections that
\* get_connection creates over a run.
MaxPool == 2
MaxMade == 2

poolFrame ==
    <<lifeVars, mapVars, regVars, entryVars, cycleVars, routerVars, updVars,
      conn>>

\* ConnectionPool::new returned Ok: initialize_connections sent
\* max_connections fresh connections into the channel.
PoolInit ==
    /\ Idle /\ seq = SocialDeclared /\ ~allowCheck
    /\ NoMaps /\ NoReg /\ NoEntry /\ FirstCycle /\ NoRouter /\ NoUpdates
    /\ NoConn
    /\ \E n \in 1..MaxPool :
          pool = [max |-> n, permits |-> n, idle |-> n, probing |-> 0,
                  creating |-> 0, handed |-> 0, returning |-> 0, made |-> 0]

\* get_connection: a permit is acquired, then receiver.try_recv(): an idle
\* connection is taken to be validated, or none is there and one is created.
GetAcquire ==
    /\ pool.permits > 0
    /\ pool' = IF pool.idle > 0
               THEN [pool EXCEPT !.permits = @ - 1, !.idle = @ - 1,
                                 !.probing = @ + 1]
               ELSE [pool EXCEPT !.permits = @ - 1, !.creating = @ + 1]
    /\ UNCHANGED poolFrame

\* conn.is_healthy().await: the connection is handed out, or it is stale and
\* a new one is created in its place.  _permit drops when the call returns.
GetProbe(healthy) ==
    /\ pool.probing > 0
    /\ pool' = IF healthy
               THEN [pool EXCEPT !.probing = @ - 1, !.handed = @ + 1,
                                 !.permits = @ + 1]
               ELSE [pool EXCEPT !.probing = @ - 1, !.creating = @ + 1]
    /\ UNCHANGED poolFrame

\* create_new_connection().await: the new connection is handed out, or the
\* factory fails and get_connection returns the error.
GetCreate(ok) ==
    /\ pool.creating > 0
    /\ ok => pool.made < MaxMade
    /\ pool' = IF ok
               THEN [pool EXCEPT !.creating = @ - 1, !.handed = @ + 1,
                                 !.made = @ + 1, !.permits = @ + 1]
               ELSE [pool EXCEPT !.creating = @ - 1, !.permits = @ + 1]
    /\ UNCHANGED poolFrame

\* return_connection is called with a connection got from get_connection.
ReturnCall ==
    /\ pool.handed > 0
    /\ pool' = [pool EXCEPT !.handed = @ - 1, !.returning = @ + 1]
    /\ UNCHANGED poolFrame

\* sender.send(conn).await completes once the channel has room.
ReturnSend ==
    /\ pool.returning > 0 /\ pool.idle < pool.max
    /\ pool' = [pool EXCEPT !.returning = @ - 1, !.idle = @ + 1]
    /\ UNCHANGED poolFrame

PoolNext ==
    \/ GetAcquire
    \/ \E healthy \in BOOLEAN : GetProbe(healthy)
    \/ \E ok \in BOOLEAN : GetCreate(ok)
    \/ ReturnCall \/ ReturnSend

PoolSpec == PoolInit /\ [][PoolNext]_vars

\* The runtime keeps driving every call that was made; it forces no caller
\* to call get_connection or return_connection.
PoolFairness ==
    /\ WF_vars(\E healthy \in BOOLEAN : GetProbe(healthy))
    /\ WF_vars(\E ok \in BOOLEAN : GetCreate(ok))
    /\ WF_vars(ReturnSend)

PoolLiveSpec == PoolSpec /\ PoolFairness

(***************************************************************************)
(* surrealdb/connection.rs: one Connection.  query and transaction take    *)
(* &self and may overlap; each is a call and, later, its completion.       *)
(* reconnect takes &mut self and runs alone.  db numbers the handles the   *)
(* connection has had; last is the operation that completed most recently  *)
(* with its outcome.                                                       *)
(***************************************************************************)

\* The most calls made on the connection over a run.
MaxCalls == 3

connFrame ==
    <<lifeVars, mapVars, regVars, entryVars, cycleVars, routerVars, updVars,
      pool>>

\* Ok(Ok(_)), Ok(Err(_)) and Err(_) of tokio::time::timeout(.., op).
Outcomes == {"ok", "err", "timeout"}

\* Connection::new returned Ok.
ConnInit ==
    /\ Idle /\ seq = SocialDeclared /\ ~allowCheck
    /\ NoMaps /\ NoReg /\ NoEntry /\ FirstCycle /\ NoRouter /\ NoUpdates
    /\ NoPool
    /\ conn = [db |-> 1, is_healthy |-> TRUE, query_count |-> 0,
               error_count |-> 0, queries |-> 0, transactions |-> 0,
               calls |-> 0, completed |-> 0, last |-> <<"none", "none">>]

\* The is_healthy.store(..) of each match arm; the Ok(Err(e)) arm of
\* transaction and the early return of reconnect store nothing.
HealthyAfter(op, o, was) ==
    IF o = "ok" THEN TRUE
    ELSE IF op = "reconnect" \/ (op = "transaction" /\ o = "err") THEN was
    ELSE FALSE

\* error_count.fetch_add(1, ..) in the failing arms of query and transaction.
ErrorsAfter(op, o, n) ==
    IF op \in {"query", "transaction"} /\ o # "ok" THEN n + 1 ELSE n

Completed(c, op, o) ==
    [c EXCEPT !.is_healthy = HealthyAfter(op, o, @),
              !.error_count = ErrorsAfter(op, o, @),
              !.completed = @ + 1,
              !.last = <<op, o>>]

\* query up to the await of the timeout: query_count.fetch_add(1, ..).
QueryStart ==
    /\ conn.calls < MaxCalls
    /\ conn' = [conn EXCEPT !.query_count = @ + 1, !.queries = @ + 1,
                            !.calls = @ + 1]
    /\ UNCHANGED connFrame

QueryDone(o) ==
    /\ conn.queries > 0
    /\ conn' = [Completed(conn, "query", o) EXCEPT !.queries = @ - 1]
    /\ UNCHANGED connFrame

\* transaction up to the await of the timeout: no counter is touched.
TransactionStart ==
    /\ conn.calls < MaxCalls
    /\ conn' = [conn EXCEPT !.transactions = @ + 1, !.calls = @ + 1]
    /\ UNCHANGED connFrame

TransactionDone(o) ==
    /\ conn.transactions > 0
    /\ conn' = [Completed(conn, "transaction", o) EXCEPT !.transactions = @ - 1]
    /\ UNCHANGED connFrame

\* health_check, from its call to its return.
HealthCheck(o) ==
    /\ conn.calls < MaxCalls
    /\ conn' = [Completed(conn, "health_check", o) EXCEPT !.calls = @ + 1]
    /\ UNCHANGED connFrame

\* reconnect(&mut self): self.db = establish_connection(..).await?
Reconnect(o) ==
    /\ conn.calls < MaxCalls
    /\ conn.queries = 0 /\ conn.transactions = 0
    /\ conn' = [Completed(conn, "reconnect", o) EXCEPT
                    !.db = IF o = "ok" THEN @ + 1 ELSE @,
                    !.calls = @ + 1]
    /\ UNCHANGED connFrame

\* ConnectionStats::error_rate, as the fraction <<numerator, denominator>>.
error_rate(query_count, error_count) ==
    IF query_count = 0 THEN <<0, 1>> ELSE <<error_count * 100, query_count>>

ConnNext ==
    \/ QueryStart \/ TransactionStart
    \/ \E o \in Outcomes :
        \/ QueryDone(o) \/ TransactionDone(o) \/ HealthCheck(o)
    \/ \E o \in {"ok", "err"} : Reconnect(o)

ConnSpec == ConnInit /\ [][ConnNext]_vars

Next ==
    \/ \E a \in Bundles :
        \/ DbOpenOk(a) \/ DbOpenFail(a)
        \/ BuildOk(a) \/ BuildFailOwn(a) \/ BuildFailDepend(a)
        \/ Assemble(a)
        \/ ManagerStart(a) \/ StartReturn(a)
        \/ StopInterrupt(a) \/ StopLock(a) \/ StopJoin(a)
        \/ PollLock(a) \/ PollReturn(a)
        \/ \E s \in Workers(a) : WorkerExit(a, s) \/ WorkerError(a, s)
    \/ MigrationsOk(2) \/ MigrationsFail(2)
    \/ UpdatesDisabled \/ UpdatesEnter \/ UpdatesTick \/ UpdatesBreak
    \/ UpdatesCheck
    \/ PollBegin \/ PollDrop
    \/ PairInterrupt
    \/ \E a \in Bundles : HostClone(a) \/ DbClone(a)
    \/ RunStopCheck
    \/ RunBegin \/ ServerShutdown \/ SignalFire
    \/ \E r \in {"ok", "err", "panic"} : ListenerFinish(r)
    \/ RunPollFirst \/ RunJoinListener \/ RunReturn

Spec == Init /\ [][Next]_vars

\* The scheduler keeps driving every spawned worker task and every host
\* future that is being awaited; it forces neither a worker failure, nor a
\* start failure, nor the host to call poll or stop or to drop a poll.
Fairness ==
    /\ \A a \in Bundles :
        /\ WF_vars(StopLock(a)) /\ WF_vars(StopJoin(a))
        /\ WF_vars(PollLock(a)) /\ WF_vars(PollReturn(a))
        /\ \A s \in Workers(a) : WF_vars(WorkerExit(a, s))
    /\ WF_vars(UpdatesDisabled) /\ WF_vars(UpdatesEnter)
    /\ WF_vars(UpdatesTick) /\ WF_vars(UpdatesBreak) /\ WF_vars(UpdatesCheck)

LiveSpec == Spec /\ Fairness

\* The pair from its start to the return of stop and of run, without the
\* host's handling of the handles after stop.
ServeNext ==
    \/ \E a \in Bundles :
        \/ DbOpenOk(a) \/ DbOpenFail(a)
        \/ BuildOk(a) \/ BuildFailOwn(a) \/ BuildFailDepend(a)
        \/ Assemble(a)
        \/ ManagerStart(a) \/ StartReturn(a)
        \/ StopInterrupt(a) \/ StopLock(a) \/ StopJoin(a)
        \/ PollLock(a) \/ PollReturn(a)
        \/ \E s \in Workers(a) : WorkerExit(a, s) \/ WorkerError(a, s)
    \/ MigrationsOk(2) \/ MigrationsFail(2)
    \/ UpdatesDisabled \/ UpdatesEnter \/ UpdatesTick \/ UpdatesBreak
    \/ UpdatesCheck
    \/ PollBegin \/ PollDrop
    \/ PairInterrupt
    \/ RunBegin \/ ServerShutdown \/ SignalFire
    \/ \E r \in {"ok", "err", "panic"} : ListenerFinish(r)
    \/ RunPollFirst \/ RunJoinListener \/ RunReturn

ServeSpec == Init /\ [][ServeNext]_vars /\ Fairness

(***************************************************************************)
(* Properties.                                                             *)
(***************************************************************************)

Running(a) == {s \in Workers(a) : wpc[a][s] \notin {"none", "done"}}
SpawnedWorkers(a) == {s \in Workers(a) : wpc[a][s] # "none"}
StartReturnedOk(a) == phase[a] \in {"started", "dropped"}
StartReturnedErr(a) == phase[a] = "failed"

C3_DeclaredOrderRespectsDeps ==
    (seq = SocialDeclared /\ starting = 2 /\ phase[2] = "build" /\ ~FullyBuilt(2))
        => Unresolved(2, seq[pos[2]]) = {}

\* C4: once start has returned an error no worker is running.
C4_NothingRunsAfterStartError ==
    startRes = "err" => \A a \in Bundles : Running(a) = {}

\* C5: when Manager::stop begins to join, stop's interrupt() has reached
\* every live service of the Registry; stop returns only after Manager::stop
\* has completed.
C5_InterruptBeforeJoin ==
    \A a \in Bundles :
        /\ stopPc[a] \in {"join", "returned"}
              => (Names(a) \subseteq stopIntr[a] /\ stopIntr[a] \subseteq intr[a])
        /\ stopPc[a] = "returned" => joined[a]
        /\ joined[a] => stopPc[a] = "returned"

C5_Witness ==
    /\ stopPc[2] = "join" /\ Running(2) # {} /\ stopIntr[2] = Names(2)
    /\ stopPc[1] = "returned" /\ joined[1]

\* C6: once interrupt() has been called on the updates service, its worker
\* eventually returns.
C6_InterruptEndsUpdatesWorker ==
    ("updates" \in intr[2] /\ wpc[2]["updates"] # "none")
        ~> (wpc[2]["updates"] = "done")

\* C7: stop of a bundle has not returned while a worker it spawned is still
\* running.
C7_StopWaitsForWorkers ==
    \A a \in Bundles : stopPc[a] = "returned" => Running(a) = {}

\* A worker that missed its interrupt keeps stop waiting in Manager::stop.
C7_Witness ==
    /\ stopPc[2] = "join" /\ mutex[2] = "stop"
    /\ "updates" \in intr[2] /\ wpc[2]["updates"] = "check" /\ ~woken
    /\ wpc[2]["admin"] = "done"

PairPollReturns == \E a \in Bundles : PollReturn(a) /\ pollPc' = "done"

\* C9: a pending poll of the pair can return as soon as a worker of either
\* element has finished, in particular a worker of the second element while
\* every worker of the first is still running.
C9_PairPollRacesUnion ==
    (pollPc = "wait" /\ finished[2] # <<>> /\ Running(1) = SpawnedWorkers(1))
        => ENABLED PairPollReturns

\* C10: the second element's stop begins only after the first element's
\* stop has returned, its services interrupted and its workers joined.
C10_PairStopSequential ==
    stopPc[2] # "idle"
        => /\ stopPc[1] = "returned" /\ joined[1]
           /\ Names(1) \subseteq intr[1] /\ Running(1) = {}

C10_Witness ==
    /\ stopPc[2] = "lock" /\ stopPc[1] = "returned"
    /\ Running(2) # {} /\ wpc[1]["config"] = "done"

\* C11: interrupt() on the pair reaches every live service of the first
\* element before any service of the second element.
C11_PairInterruptFirstThenSecond ==
    \A i, j \in 1..Len(intrLog) :
        (intrLog[i][1] = 1 /\ intrLog[j][1] = 2) => i < j

DistinctNames ==
    \A x, y \in 1..3 : x # y => (DOMAIN mapIn[x]) \cap (DOMAIN mapIn[y]) = {}

\* C12: for three bundles with pairwise distinct service names, the merged
\* Maps of ((A, B), C) and of (A, (B, C)) have the same names, the union of
\* the names of the three Registries, each with its owner's entry.
C12_NestedMapsAgree ==
    (nestDone = {"l", "r"} /\ DistinctNames)
        => /\ DOMAIN nestL = DOMAIN nestR
           /\ DOMAIN nestL = UNION {DOMAIN mapIn[x] : x \in 1..3}
           /\ \A x \in 1..3 : \A n \in DOMAIN mapIn[x] :
                 nestL[n] = x /\ nestR[n] = x

C12_Witness ==
    /\ nestDone = {"l", "r"} /\ DistinctNames
    /\ \A x \in 1..3 : DOMAIN mapIn[x] # {}
    /\ DOMAIN nestL = MapNames

\* Holders of a strong handle of a service: the aggregate's field while the
\* aggregate (or the struct literal under construction) exists, and the
\* service's worker task while it runs.
Holders(a, s) ==
    (IF s \in registry[a] /\ phase[a] \notin {"failed", "dropped"} THEN 1 ELSE 0)
        + (IF s \in Running(a) THEN 1 ELSE 0)

\* C13: the Registry never owns a service: add_service leaves the strong
\* count as it found it, every strong handle belongs to a holder outside the
\* Registry, and an entry upgrades only while such a holder exists.
C13_RegistryNeverOwns ==
    \A a \in Bundles : \A s \in Names(a) :
        /\ strong[a][s] = Holders(a, s)
        /\ (s \in Upgradable(a)) <=> (strong[a][s] > 0)
        /\ (phase[a] = "build" /\ s \in registry[a]) => strong[a][s] = 1

\* Entries stay in the Registry of a dropped aggregate and do not upgrade,
\* except the one whose worker is still running.
C13_Witness ==
    /\ startRes = "err" /\ phase[2] = "failed" /\ registry[2] # {}
    /\ Upgradable(2) = {}
    /\ phase[1] = "dropped" /\ registry[1] = {"config"}
    /\ strong[1]["config"] = 1 /\ wpc[1]["config"] = "run"

\* C14: after start has completed and stop has returned, once no strong
\* handle to the aggregate is left no entry of its Registry upgrades.
C14_NothingUpgradesAfterDrop ==
    \A a \in Bundles :
        (StartReturnedOk(a) /\ stopPc[a] = "returned" /\ AggStrong(a) = 0)
            => (Upgradable(a) = {} /\ \A s \in Names(a) : strong[a][s] = 0)

C14_Witness ==
    /\ stopRes = "ok" /\ AggStrong(2) = 0 /\ registry[2] = Names(2)
    /\ Upgradable(2) = {}
    /\ AggStrong(1) = 1 /\ Upgradable(1) = {"config"}

\* C15: build, start, stop, check_refs with no other handle kept: check_refs
\* unwraps the aggregate and logs no dangling-reference diagnostic for it.
C15_RoundTripLogsNoLeak ==
    \A a \in Bundles :
        (stopRes # "none" /\ clones[a] = 0)
            => /\ phase[a] = "dropped"
               /\ \A d \in diag : ~(d[1] = "refs" /\ d[2] = BundleName(a))

C15_Witness ==
    /\ stopRes = "ok" /\ diag = {}
    /\ phase[1] = "dropped" /\ phase[2] = "dropped"
    /\ registry[2] = Names(2) /\ finished[2] # <<>>

\* C16: handles left at check_refs do not fail the shutdown: run::stop
\* returns Ok(()), and each leak is logged with its count and its name (the
\* count is Arc::strong_count of the handle check_refs got back).
C16_LeakIsOnlyLogged ==
    stopRes # "none"
        => /\ stopRes = "ok"
           /\ \A a \in Bundles :
                clones[a] > 0
                    => /\ <<"refs", BundleName(a), clones[a] + 1>> \in diag
                       /\ phase[a] = "started"
           /\ (clones[1] > 0 \/ dbHeld[1] > 0)
                => \E d \in diag : d[1] = "db" /\ d[3] > 0

C16_Witness ==
    /\ stopRes = "ok" /\ clones[2] = 1 /\ dbHeld[1] = 1 /\ clones[1] = 0
    /\ diag = {<<"refs", "SocialServices", 2>>, <<"db", "Database", 1>>}

\* C17: while the stream of services() is being consumed it yields the
\* collected Vec and nothing inserted since; the Vec holds only entries of
\* the Map that upgraded; and the inserting task is not held up by it: with
\* no other task inside a guard it can take its read and its write guard.
C17_SnapshotIsolation ==
    spc = "stream"
        => /\ StreamItems(snap) = snap
           /\ StreamItems(snap) \cap after = {}
           /\ snap \subseteq rmap \ after
           /\ (rmap \ after) \cap owned \subseteq snap
           /\ yielded \subseteq snap
           /\ (ipc = "gap" /\ xpc # "loop") => ENABLED InsAcquireWrite
           /\ ipc = "idle" => \A n \in MapNames \ rmap : ENABLED InsAcquireRead(n)

C17_Witness ==
    /\ spc = "stream" /\ snap = {"admin"} /\ yielded = {}
    /\ after = {"client", "config"} /\ rmap = MapNames
    /\ owned = {"client", "config"}

\* C18: a guard of the Registry lock is held only inside the synchronous
\* section that took it: the task consuming the stream of services() (the
\* awaits of clear_cache and memory_usage) holds none, interrupt holds its
\* read guard for its loop only, add_service holds its read guard for len()
\* only and its write guard for the insert only.
C18_NoGuardAcrossAwait ==
    /\ spc \in {"stream", "done"} => "snap" \notin rdr
    /\ ("snap" \in rdr) <=> (spc = "collect")
    /\ ("intr" \in rdr) <=> (xpc = "loop")
    /\ ("ins" \in rdr) <=> (ipc = "len")
    /\ (wtr = "ins") <=> (ipc = "write")
    /\ wtr # "none" => rdr = {}

C18_Witness ==
    /\ spc = "stream" /\ snap = {"admin", "client"} /\ yielded = {"admin"}
    /\ ipc = "write" /\ iname = "config" /\ wtr = "ins" /\ xpc = "done"
    /\ xseen = {"admin"}

C20_ListenerFirstReturnsItsResult ==
    /\ (runPc = "select" /\ ListenerFinished /\ pollPc # "done")
          => ENABLED PollDrop
    /\ runPc \in {"sigs", "returned"} => runBranch \in {"listener", "poll"}
    /\ runBranch = "listener"
          => /\ runRes = (IF listener = "ok" THEN "ok" ELSE "err")
             /\ ~runShutdown /\ runLog = {}
             /\ pollPc = "dropped" /\ pollRes = "none"

C20_Witness ==
    /\ runPc = "returned" /\ runBranch = "listener" /\ listener = "panic"
    /\ runRes = "err" /\ srvRunning /\ polled[1] = "none"
    /\ mutex[1] = "free" /\ Running(1) # {}

\* C21: once the future returned by start, stop or run has completed, it
\* completed with a value and never by unwinding: with an Err built from the
\* panic when the inner future panicked, and with the inner future's own
\* result otherwise.
C21_PanicBecomesErr ==
    entryRes # "none" =>
        /\ polls = Len(inner)
        /\ entryRes # "panic"
        /\ inner[polls] = "panic" => entryRes = "err_from_panic"
        /\ inner[polls] # "panic" => entryRes = inner[polls]

C21_Witness ==
    /\ entryRes = "err_from_panic" /\ inner[polls] = "panic" /\ polls > 1

\* C22: once stop has returned on an aggregate, its Manager slot is empty.
C22_ManagerGoneAfterStop ==
    \A a \in Bundles :
        (stopPc[a] = "returned" /\ phase[a] = "started") => manager[a] = "none"

C26_SignalTaskJoinedAtReturn ==
    runPc = "returned" =>
        /\ runBranch \in {"listener", "poll"}
        /\ sigs = "joined"
        /\ ~ENABLED SignalFire

C26_Witness ==
    /\ runPc = "returned" /\ runBranch = "listener" /\ listener = "panic"
    /\ srvRunning /\ sigs = "joined"

\* C27: while a poll on an aggregate is pending inside manager.poll(), a stop
\* on the same aggregate that has interrupted the services waits for the
\* Manager slot: it never holds the slot together with the poll and gets it
\* only once the poll has returned or was dropped.  If every worker of the
\* aggregate eventually exits, the waiting stop eventually returns.
C27_StopWaitsForPendingPoll ==
    /\ [](\A a \in Bundles :
            /\ ~(pollPc = "wait" /\ pollAt = a /\ stopPc[a] = "join")
            /\ (pollPc = "wait" /\ pollAt = a /\ stopPc[a] = "lock")
                  => (Names(a) \subseteq stopIntr[a] /\ ~ENABLED StopLock(a)))
    /\ \A a \in Bundles :
          <>[](Running(a) = {})
             => ((pollPc = "wait" /\ pollAt = a /\ stopPc[a] = "lock")
                    ~> stopPc[a] = "returned")

C27_Witness ==
    /\ pollPc = "wait" /\ pollAt = 2 /\ stopPc[2] = "lock"
    /\ mutex[2] = "poll" /\ Running(2) # {}

\* C23: every start creates a new, empty Registry for its aggregate; while
\* the aggregate is built its Registry holds exactly the services this start
\* has inserted, an insert changes the Registry of that aggregate and of no
\* other, and the Registries of aggregates of earlier cycles keep their
\* entries.
C23_FreshRegistryPerStart ==
    [][\A a \in Bundles :
          /\ (phase[a] = "idle" /\ phase'[a] = "build") => registry'[a] = {}
          /\ phase'[a] = "build"
                => registry'[a] = {BuildSeq(a)[i] : i \in 1..(pos'[a] - 1)}
          /\ registry'[a] # registry[a]
                => /\ starting = a
                   /\ \A b \in Bundles \ {a} : registry'[b] = registry[b]
                   /\ kept' = kept
          /\ kept \subseteq kept']_vars

C23_Witness ==
    /\ cycle = 2 /\ <<1, 2, "admin">> \in kept /\ <<1, 1, "config">> \in kept
    /\ phase[1] = "started" /\ registry[1] = Names(1)
    /\ phase[2] = "build" /\ registry[2] = {"admin"}

\* The concrete aggregates of a value, from left to right.
RECURSIVE Fringe(_)
Fringe(x) ==
    CASE x[1] = "Arc"  -> Fringe(x[2])
      [] x[1] = "Pair" -> Fringe(x[2]) \o Fringe(x[3])
      [] OTHER         -> <<x[1]>>

\* An Arc of a concrete aggregate, or a pair of such values.
RECURSIVE WellFormed(_)
WellFormed(x) ==
    CASE x[1] = "Arc"  -> x[2][1] \in Concrete
      [] x[1] = "Pair" -> WellFormed(x[2]) /\ WellFormed(x[3])
      [] OTHER         -> FALSE

\* C24: arc_build on a pair that completes has called arc_build on the pair,
\* then on everything of the first element, then on everything of the
\* second; its router is the routes of the first element followed by the
\* routes of the second, every route table once, and its guard is the pair
\* of the first element's guard and the second element's guard.
C24_PairBuildsFirstThenSecond ==
    (bundle # <<>> /\ bundle[1] = "Pair" /\ built.st = "ok") =>
        /\ built.router = Fringe(bundle[2]) \o Fringe(bundle[3])
        /\ built.guard = <<"Pair", arc_build(bundle[2]).guard,
                                    arc_build(bundle[3]).guard>>
        /\ built.calls = <<bundle>> \o arc_build(bundle[2]).calls
                                    \o arc_build(bundle[3]).calls
        /\ arc_build(bundle[2]).calls[1] = bundle[2]
        /\ arc_build(bundle[3]).calls[1] = bundle[3]

C24_Witness ==
    /\ bundle = PairOf(ArcOf(<<"Core", <<>>, <<>>>>), ArcOf(<<"Social", <<>>, <<>>>>))
    /\ built.st = "ok" /\ built.router = <<"Core", "Social">>

SetMax(S) == CHOOSE m \in S : \A x \in S : x <= m

C31_WorkerEndsByInterruptOrDisabled ==
    [][/\ (wpc[2]["updates"] # "done" /\ wpc'[2]["updates"] = "done")
             => /\ \/ (wpc[2]["updates"] = "entry" /\ ~allowCheck)
                   \/ (wpc[2]["updates"] = "select" /\ woken)
                /\ finished'[2][Len(finished'[2])] = <<"updates", "ok">>
       /\ (wpc[2]["updates"] = "check" /\ wpc'[2]["updates"] # "check")
             => wpc'[2]["updates"] \in {"select", "handle"}]_vars

\* C32: the Database check of run::stop reports exactly the strong handles
\* to the first bundle's Database; handles to the second bundle's Database
\* that outlive the shutdown produce no diagnostic.
C32_DbCheckCoversFirstOnly ==
    [][(stopRes = "none" /\ stopRes' # "none")
          => ((\E d \in diag' : d[1] = "db") <=> DbStrongOf(1) > 0)]_vars

C32_Witness ==
    /\ stopRes # "none"
    /\ dbHeld[2] > 0 /\ dbHeld[1] = 0 /\ clones = <<0, 0>>
    /\ ~(\E d \in diag : d[1] = "db")

\* C33: the connections handed out and not yet returned together with the
\* connections idle in the pool never number more than max_connections.
C33_AtMostMaxConnections ==
    pool.handed + pool.returning + pool.idle <= pool.max

\* C34: no call of return_connection stays blocked forever on a full pool
\* channel.
C34_ReturnNeverBlocksForever ==
    []<>(~(pool.returning > 0 /\ pool.idle = pool.max))

\* C35: when an operation completes, is_healthy is true if it succeeded and
\* false if a query, a transaction or a health_check failed or timed out; a
\* failed reconnect leaves the handle and the flag as they were.
C35_FlagFollowsLastOperation ==
    [][conn'.completed # conn.completed
          => LET op == conn'.last[1]
                 o == conn'.last[2]
             IN /\ o = "ok" => conn'.is_healthy
                /\ (o # "ok" /\ op # "reconnect") => ~conn'.is_healthy
                /\ (o # "ok" /\ op = "reconnect")
                      => /\ conn'.db = conn.db
                         /\ conn'.is_healthy = conn.is_healthy]_vars

\* C36: error_count never exceeds query_count, and the error rate of the
\* statistics lies between 0 and 100.
C36_ErrorRateIsPercentage ==
    /\ conn.error_count <= conn.query_count
    /\ LET r == error_rate(conn.query_count, conn.error_count)
       IN 0 <= r[1] /\ r[1] <= 100 * r[2]

====
